---- MODULE Spec2Model ----
(***************************************************************************)
(* A model of lib/SIL/SILValueProjection.cpp: load/store locations and     *)
(* values as (base, projection path) pairs, the bottom-up value reduction  *)
(* LSValue::reduce, the location-set reduction LSLocation::reduce, the     *)
(* alias predicates and the location enumerator.                           *)
(***************************************************************************)
EXTENDS Naturals, Sequences, FiniteSets, TLC

VARIABLES
  \* ---- LSValue::reduce ----
  rBase,      \* the LSLocation &Base argument
  Values,     \* the LSLocationValueMap &Values argument (LSLocation -> LSValue)
  Values0,    \* Values as the caller passed it
  ALocs,      \* the node expansion of Base, line 97-101
  rI,         \* the reverse iterator I, as an index into ALocs (0: rend)
  insts,      \* the instructions emitted at InsertPt, in emission order
  branch,     \* the branch of the loop body taken for the last node visited
  ret,        \* the SILValue returned (0 before the return)
  rpc,        \* "loop", "done", or "off" when reduce is not the operation run
  \* ---- LSLocation::reduce ----
  cBase,      \* the LSLocation Base argument
  Locs,       \* the LSLocationSet &Locs argument
  Locs0,      \* Locs as the caller passed it
  Locs1,      \* Locs when the first call returned
  Nodes,      \* the node expansion of Base, line 269-273
  cI,         \* the reverse iterator I, as an index into Nodes (0: rend)
  pass,       \* 1 in the first call, 2 in the second call on its result
  cpc,        \* "loop", "done", or "off"
  \* ---- LSLocation::enumerateLSLocation ----
  Locations,  \* std::vector<LSLocation> &Locations, the vault
  IndexMap,   \* LSLocationIndexMap &IndexMap
  BaseMap,    \* LSLocationBaseMap &BaseMap
  seen,       \* the address values enumerateLSLocation has been called with
  calls,      \* number of calls made
  epc,        \* "run" or "off"
  \* ---- LSLocation::enumerateLSLocations ----
  Fn,         \* the instructions of SILFunction &F, block after block
  fI,         \* the instruction the loops are at, as an index into Fn
  LSCount,    \* std::pair<int, int> &LSCount: <<first, second>>
  LSCount0,   \* LSCount as the caller passed it
  fpc,        \* "loop", "done", or "off"
  \* ---- alias predicates ----
  locA, locB, \* the two LSLocations
  AAResult,   \* the alias analysis' answer for the two bases
  must, may,  \* the results of isMustAliasLSLocation / isMayAliasLSLocation
  apc,        \* "ask", "must", "done", or "off"
  \* ---- LSLocation::isNonEscapingLocalLSLocation ----
  locE,       \* the LSLocation asked about
  baseInst,   \* the kind of instruction (or argument) its Base is
  cgNode,     \* what the connection graph holds for Base
  nonEsc,     \* the result
  xpc         \* "ask", "done", or "off"

rvars == <<rBase, Values, Values0, ALocs, rI, insts, branch, ret, rpc>>
cvars == <<cBase, Locs, Locs0, Locs1, Nodes, cI, pass, cpc>>
evars == <<Locations, IndexMap, BaseMap, seen, calls, epc, Fn, fI, LSCount, LSCount0, fpc>>
avars == <<locA, locB, AAResult, must, may, apc, locE, baseInst, cgNode, nonEsc, xpc>>
vars == <<rvars, cvars, evars, avars>>

(***************************************************************************)
(* Bounds of the model.                                                    *)
(***************************************************************************)
\* number of Int-typed SSA values available to the caller of LSValue::reduce
NumInts == 2
\* number of distinct address values that resolve to one and the same location
NumTags == 2
\* number of enumerateLSLocation calls in one run
MaxCalls == 4

(***************************************************************************)
(* The type system: the types of the model and their stored fields.        *)
(***************************************************************************)
TypeNames == {"Int", "Cls", "Pt", "Wrap", "Mix"}

\* The stored fields of a type, one projection step each.
\*   struct Pt { x: Int, y: Int }      struct Wrap { w: Pt }
\*   struct Mix { p: Pt, c: Cls }      class Cls { f: Int, g: Int }
FieldsOf(T) ==
  CASE T = "Pt"   -> << [step |-> "x", ty |-> "Int"], [step |-> "y", ty |-> "Int"] >>
    [] T = "Wrap" -> << [step |-> "w", ty |-> "Pt"] >>
    [] T = "Mix"  -> << [step |-> "p", ty |-> "Pt"], [step |-> "c", ty |-> "Cls"] >>
    [] T = "Cls"  -> << [step |-> "f", ty |-> "Int"], [step |-> "g", ty |-> "Int"] >>
    [] OTHER      -> << >>

\* SILType::getClassOrBoundGenericClass
getClassOrBoundGenericClass(T) == T = "Cls"

\* Projection::getFirstLevelProjections: one projection per stored field.
getFirstLevelProjections(T) == [i \in 1..Len(FieldsOf(T)) |-> FieldsOf(T)[i].step]

\* index of the field a step selects in type T, 0 when T has no such field
FieldIndex(T, s) ==
  IF \E i \in 1..Len(FieldsOf(T)) : FieldsOf(T)[i].step = s
  THEN CHOOSE i \in 1..Len(FieldsOf(T)) : FieldsOf(T)[i].step = s
  ELSE 0

\* the type a projection path leads to from type T ("Invalid": no such path)
RECURSIVE TypeAt(_, _)
TypeAt(T, path) ==
  IF path = << >> THEN T
  ELSE IF FieldIndex(T, Head(path)) = 0 THEN "Invalid"
  ELSE TypeAt(FieldsOf(T)[FieldIndex(T, Head(path))].ty, Tail(path))

Prepend(s, paths) == [i \in 1..Len(paths) |-> <<s>> \o paths[i]]

\* TypeExpansionAnalysis::getTypeExpansion(T, TEKind::TENode): every node of
\* the field tree as a path from T, a node before the nodes below it; a type
\* without fields and a class type are not expanded.
RECURSIVE ExpandNodeFrom(_, _), ExpandNode(_)
ExpandNodeFrom(T, i) ==
  IF i = 0 THEN << >>
  ELSE Prepend(FieldsOf(T)[i].step, ExpandNode(FieldsOf(T)[i].ty))
         \o ExpandNodeFrom(T, i - 1)
ExpandNode(T) ==
  IF FieldsOf(T) = << >> \/ getClassOrBoundGenericClass(T)
  THEN << << >> >>
  ELSE << << >> >> \o ExpandNodeFrom(T, Len(FieldsOf(T)))

\* TypeExpansionAnalysis::getTypeExpansion(T, TEKind::TELeaf): the leaves only.
RECURSIVE ExpandLeafFrom(_, _), ExpandLeaf(_)
ExpandLeafFrom(T, i) ==
  IF i = 0 THEN << >>
  ELSE Prepend(FieldsOf(T)[i].step, ExpandLeaf(FieldsOf(T)[i].ty))
         \o ExpandLeafFrom(T, i - 1)
ExpandLeaf(T) ==
  IF FieldsOf(T) = << >> \/ getClassOrBoundGenericClass(T)
  THEN << << >> >>
  ELSE ExpandLeafFrom(T, Len(FieldsOf(T)))

Range(s) == {s[i] : i \in 1..Len(s)}

(***************************************************************************)
(* LSLocation: an address base and a projection path.                      *)
(***************************************************************************)
\* the address bases (allocations) of the model and their types
AddrBases == {"aInt", "aCls", "aPt", "aWrap", "aMix"}
AddrType(b) ==
  CASE b = "aInt" -> "Int" [] b = "aCls" -> "Cls" [] b = "aPt" -> "Pt"
    [] b = "aWrap" -> "Wrap" [] b = "aMix" -> "Mix"

\* LSLocation(Base, Path)
LSLocation(b, p) == [base |-> b, path |-> p]

\* LSLocation(Base, BasePath, P): the path is BasePath followed by P
LSLocation3(b, basePath, p) == [base |-> b, path |-> basePath \o p]

\* SILValueProjection::getType
getType(L) == TypeAt(AddrType(L.base), L.path)

\* a first level whose paths start at Base instead of at the location
getFirstLevelLSLocationsFromBase(L) ==
  LET Out == getFirstLevelProjections(getType(L))
  IN  [i \in 1..Len(Out) |-> LSLocation(L.base, <<Out[i]>>)]

\* LSLocation::getFirstLevelLSLocations
getFirstLevelLSLocations(L) ==
  LET Out == getFirstLevelProjections(getType(L))
  IN  [i \in 1..Len(Out) |-> LSLocation(L.base, Append(L.path, Out[i]))]

\* an expansion that lists every node of the field tree, aggregates included
expandToNodes(B) ==
  LET E == ExpandNode(getType(B))
  IN  [i \in 1..Len(E) |-> LSLocation3(B.base, B.path, E[i])]

\* LSLocation::expand: the leaf locations of B
expand(B) ==
  LET E == ExpandLeaf(getType(B))
  IN  [i \in 1..Len(E) |-> LSLocation3(B.base, B.path, E[i])]

\* the node expansion as built at lines 97-101 and 269-273
NodeLocations(B) ==
  LET E == ExpandNode(getType(B))
  IN  [i \in 1..Len(E) |-> LSLocation3(B.base, B.path, E[i])]

\* every location reduce can be asked about: a node of an allocation's tree
BaseLocations ==
  UNION {Range(NodeLocations(LSLocation(b, << >>))) : b \in AddrBases}

(***************************************************************************)
(* SSA values, the instructions emitted at the insertion point, LSValue.   *)
(***************************************************************************)
\* The SSA values the caller has at hand, by number, with their types. An
\* emitted instruction's result is the SILValue NumArgs + its position.
ArgTypes == <<"Pt", "Wrap", "Mix", "Cls">> \o [i \in 1..NumInts |-> "Int"]
NumArgs == Len(ArgTypes)

\* LSValue(Base, Path)
LSValue(b, p) == [base |-> b, path |-> p]

\* a default-constructed LSValue, as DenseMap::operator[] inserts it
NullLSValue == LSValue(0, << >>)

\* the type of the value an LSValue over a caller's SSA value denotes
ValueType(v) == TypeAt(ArgTypes[v.base], v.path)

\* every well-typed LSValue over the caller's SSA values
AllValues ==
  UNION {{LSValue(a, p) : p \in Range(ExpandNode(ArgTypes[a]))} : a \in 1..NumArgs}

\* LSValue::hasEmptyProjectionPath
hasEmptyProjectionPath(v) == v.path = << >>

\* LSValue::stripLastLevelProjection: the value one level shallower
stripLastLevelProjection(v) == LSValue(v.base, SubSeq(v.path, 1, Len(v.path) - 1))

\* the instructions a SILBuilder creates at the insertion point
ExtractInst(operand, step) ==
  [op |-> "extract", operand |-> operand, step |-> step, ty |-> "", elems |-> << >>]
AggInst(ty, elems) ==
  [op |-> "agg", operand |-> 0, step |-> "", ty |-> ty, elems |-> elems]

\* SILValueProjection::createExtract(Base, Path, Inst, IsValExt): the value
\* and the instruction list after it; one projection instruction per step.
\* a createExtract that emits a single projection whatever the path's length
createExtractOneInst(Base, Path, ins) ==
  IF Path = << >> THEN [val |-> Base, insts |-> ins]
  ELSE [val |-> NumArgs + Len(ins) + 1,
        insts |-> Append(ins, ExtractInst(Base, Path[Len(Path)]))]

RECURSIVE createExtract(_, _, _)
createExtract(Base, Path, ins) ==
  IF Path = << >> THEN [val |-> Base, insts |-> ins]
  ELSE LET ins2 == Append(ins, ExtractInst(Base, Head(Path)))
       IN  createExtract(NumArgs + Len(ins2), Tail(Path), ins2)

\* LSValue::materialize(Inst)
materialize(v, ins) == createExtract(v.base, v.path, ins)

(***************************************************************************)
(* LSLocationValueMap, an llvm::DenseMap<LSLocation, LSValue>.             *)
(***************************************************************************)
\* Values[k] as an lvalue: a missing key is inserted with a default value
Subscript(vals, k) ==
  IF k \in DOMAIN vals THEN vals
  ELSE [x \in DOMAIN vals \cup {k} |-> IF x = k THEN NullLSValue ELSE vals[x]]

\* Values[k] = v
Assign(vals, k, v) == [x \in DOMAIN vals \cup {k} |-> IF x = k THEN v ELSE vals[x]]

\* a removeLSLocations that erases nothing
removeLSLocationsNone(vals, FirstLevel) == vals

removeLSLocations(vals, FirstLevel) ==
  [x \in DOMAIN vals \ Range(FirstLevel) |-> vals[x]]

\* the lookups Values[*Iter] of lines 123 and 141, over the whole of FirstLevel
RECURSIVE SubscriptAll(_, _, _)
SubscriptAll(vals, FirstLevel, i) ==
  IF i > Len(FirstLevel) THEN vals
  ELSE SubscriptAll(Subscript(vals, FirstLevel[i]), FirstLevel, i + 1)

\* What a read through an invalidated reference into the map can yield.
Garbage == AllValues

\* Values[*I] = FirstVal.stripLastLevelProjection() with FirstVal a reference
\* into Values (line 123): when *I is a new key the insertion may reallocate
\* the buckets, as any DenseMap insertion may, and FirstVal then dangles. The
\* outcomes: the buckets stayed and the stripped value is stored, or they
\* moved and what is stored is whatever the freed bucket holds.
StripAssigned(vals, N, FirstVal) ==
  IF N \in DOMAIN vals
  THEN {stripLastLevelProjection(FirstVal)}
  ELSE {stripLastLevelProjection(FirstVal)} \cup Garbage

(***************************************************************************)
(* LSValue::reduce, one action per path through the loop body.             *)
(***************************************************************************)
\* a loop that walks ALocs from begin() to end(), parents first
NodeForward == ALocs[Len(ALocs) + 1 - rI]

\* the node *I and its first level, lines 109-110
Node == ALocs[rI]
FirstLevel == getFirstLevelLSLocations(Node)

\* a class test that never succeeds
IsClassNodeNever == FALSE

\* lines 111-116: nodes the loop skips
IsLeafNode == FirstLevel = << >>
IsClassNode == getClassOrBoundGenericClass(getType(Node))

\* Values after the lookups of lines 123 and 141
Looked == SubscriptAll(Values, FirstLevel, 1)
FirstVal == Looked[FirstLevel[1]]

\* lines 137-143
HasIdenticalValueBase ==
  \A i \in 2..Len(FirstLevel) : FirstVal.base = Looked[FirstLevel[i]].base

\* line 124
StripSingleCond == Len(FirstLevel) = 1 /\ ~hasEmptyProjectionPath(FirstVal)
\* lines 145-146
StripIdenticalCond ==
  Len(FirstLevel) > 1 /\ HasIdenticalValueBase /\ ~hasEmptyProjectionPath(FirstVal)

\* the state of an operation that is not the one run
CompactOff ==
  /\ cBase = LSLocation("aInt", << >>) /\ Locs = {} /\ Locs0 = {} /\ Locs1 = {}
  /\ Nodes = << >> /\ cI = 0 /\ pass = 0 /\ cpc = "off"
EnumAllOff ==
  /\ Fn = << >> /\ fI = 0 /\ LSCount = <<0, 0>> /\ LSCount0 = <<0, 0>>
  /\ fpc = "off"
EnumOff ==
  /\ Locations = << >> /\ IndexMap = << >> /\ BaseMap = << >> /\ seen = {}
  /\ calls = 0 /\ epc = "off"
  /\ EnumAllOff
EscapeOff ==
  /\ locE = LSLocation("aInt", << >>) /\ baseInst = "AllocStackInst"
  /\ cgNode = "null" /\ nonEsc = FALSE /\ xpc = "off"
AliasAskOff ==
  /\ locA = LSLocation("aInt", << >>) /\ locB = LSLocation("aInt", << >>)
  /\ AAResult = "MayAlias" /\ must = FALSE /\ may = FALSE /\ apc = "off"
AliasOff ==
  /\ AliasAskOff
  /\ EscapeOff
ReduceOff ==
  /\ rBase = LSLocation("aInt", << >>) /\ Values = << >> /\ Values0 = << >>
  /\ ALocs = << >> /\ rI = 0 /\ insts = << >> /\ branch = "off" /\ ret = 0
  /\ rpc = "off"

\* the caller's maps: one well-typed LSValue for every leaf of Base
ValueMaps(B) ==
  {f \in [Range(expand(B)) -> AllValues] :
     \A L \in Range(expand(B)) : ValueType(f[L]) = getType(L)}

InitReduce ==
  /\ CompactOff /\ EnumOff /\ AliasOff
  /\ rBase \in BaseLocations
  /\ Values \in ValueMaps(rBase)
  /\ Values0 = Values
  /\ ALocs = NodeLocations(rBase)
  /\ rI = Len(ALocs)
  /\ insts = << >>
  /\ branch = "entry"
  /\ ret = 0
  /\ rpc = "loop"

\* lines 111-112: a leaf node
ReduceLeaf ==
  /\ rpc = "loop" /\ rI >= 1
  /\ IsLeafNode
  /\ rI' = rI - 1
  /\ branch' = "leaf"
  /\ UNCHANGED <<rBase, Values, Values0, ALocs, insts, ret, rpc, cvars, evars, avars>>

\* lines 115-116: a class reference
ReduceClass ==
  /\ rpc = "loop" /\ rI >= 1
  /\ ~IsLeafNode /\ IsClassNode
  /\ rI' = rI - 1
  /\ branch' = "class"
  /\ UNCHANGED <<rBase, Values, Values0, ALocs, insts, ret, rpc, cvars, evars, avars>>

\* lines 122-129: one child, strip its last projection
ReduceStripSingle ==
  /\ rpc = "loop" /\ rI >= 1
  /\ ~IsLeafNode /\ ~IsClassNode
  /\ StripSingleCond
  /\ \E v \in StripAssigned(Looked, Node, FirstVal) :
       Values' = removeLSLocations(Assign(Looked, Node, v), FirstLevel)
  /\ rI' = rI - 1
  /\ branch' = "strip1"
  /\ UNCHANGED <<rBase, Values0, ALocs, insts, ret, rpc, cvars, evars, avars>>

\* lines 137-151: several children with one value base
ReduceStripIdentical ==
  /\ rpc = "loop" /\ rI >= 1
  /\ ~IsLeafNode /\ ~IsClassNode
  /\ ~StripSingleCond
  /\ StripIdenticalCond
  /\ \E v \in StripAssigned(Looked, Node, FirstVal) :
       Values' = removeLSLocations(Assign(Looked, Node, v), FirstLevel)
  /\ rI' = rI - 1
  /\ branch' = "stripN"
  /\ UNCHANGED <<rBase, Values0, ALocs, insts, ret, rpc, cvars, evars, avars>>

\* a loop that collects the children's values last child first
RECURSIVE MaterializeFromBackwards(_, _, _, _, _)
MaterializeFromBackwards(vals, FL, i, ins, acc) ==
  IF i > Len(FL) THEN [vals |-> acc, insts |-> ins]
  ELSE LET m == materialize(Subscript(vals, FL[i])[FL[i]], ins)
       IN  MaterializeFromBackwards(Subscript(vals, FL[i]), FL, i + 1, m.insts,
                                    <<m.val>> \o acc)

\* lines 164-167: materialize the children FirstLevel[i..], in order
RECURSIVE MaterializeFrom(_, _, _, _, _)
MaterializeFrom(vals, FL, i, ins, acc) ==
  IF i > Len(FL) THEN [vals |-> acc, insts |-> ins]
  ELSE LET m == materialize(Subscript(vals, FL[i])[FL[i]], ins)
       IN  MaterializeFrom(Subscript(vals, FL[i]), FL, i + 1, m.insts,
                           Append(acc, m.val))

\* lines 164-181: aggregate the children's values
ReduceAggregate ==
  /\ rpc = "loop" /\ rI >= 1
  /\ ~IsLeafNode /\ ~IsClassNode
  /\ ~StripSingleCond
  /\ ~StripIdenticalCond
  /\ LET m  == MaterializeFrom(Looked, FirstLevel, 1, insts, << >>)
         AI == Append(m.insts, AggInst(getType(Node), m.vals))
     IN  /\ insts' = AI
         /\ Values' = removeLSLocations(
                        Assign(Looked, Node, LSValue(NumArgs + Len(AI), << >>)),
                        FirstLevel)
  /\ rI' = rI - 1
  /\ branch' = "agg"
  /\ UNCHANGED <<rBase, Values0, ALocs, ret, rpc, cvars, evars, avars>>

\* lines 188-191: the assertion and the return
ReduceReturn ==
  /\ rpc = "loop" /\ rI = 0
  /\ IF Cardinality(DOMAIN Values) = 1
     THEN LET m == materialize(Values[CHOOSE k \in DOMAIN Values : TRUE], insts)
          IN  /\ ret' = m.val
              /\ insts' = m.insts
              /\ rpc' = "done"
     ELSE /\ rpc' = "assert"
          /\ UNCHANGED <<ret, insts>>
  /\ UNCHANGED <<rBase, Values, Values0, ALocs, rI, branch, cvars, evars, avars>>

NextReduce ==
  \/ ReduceLeaf
  \/ ReduceClass
  \/ ReduceStripSingle
  \/ ReduceStripIdentical
  \/ ReduceAggregate
  \/ ReduceReturn

SpecReduce == InitReduce /\ [][NextReduce]_vars

(***************************************************************************)
(* LSLocation::reduce run on a location set, and run again on its result.  *)
(***************************************************************************)
\* every path of T's field tree, the fields behind a class reference included
RECURSIVE AllPathsFrom(_, _), AllPaths(_)
AllPathsFrom(T, i) ==
  IF i = 0 THEN {}
  ELSE {<<FieldsOf(T)[i].step>> \o q : q \in AllPaths(FieldsOf(T)[i].ty)}
         \cup AllPathsFrom(T, i - 1)
AllPaths(T) == {<< >>} \cup AllPathsFrom(T, Len(FieldsOf(T)))

\* the locations a caller's set may hold: those of Base's allocation, and one
\* of another allocation
SetLocations(B) ==
  {LSLocation(B.base, q) : q \in AllPaths(AddrType(B.base))}
    \cup {LSLocation(IF B.base = "aPt" THEN "aWrap" ELSE "aPt", <<  >>)}

\* a loop that walks Nodes from begin() to end(), parents first
cNodeForward == Nodes[Len(Nodes) + 1 - cI]

\* the node *I and its first level, lines 277-279
cNode == Nodes[cI]
cFirstLevel == getFirstLevelLSLocations(cNode)

\* an Alive that one present child is enough for
AliveAny(locs, FL) == \E i \in 1..Len(FL) : FL[i] \in locs

\* lines 290-293
Alive(locs, FL) == \A i \in 1..Len(FL) : FL[i] \in locs

\* a promotion that leaves the children in the set
PromoteKeepingChildren(locs, FL, N) == locs \cup {N}

\* lines 297-299
Promote(locs, FL, N) == (locs \ Range(FL)) \cup {N}

InitCompact ==
  /\ ReduceOff /\ EnumOff /\ AliasOff
  /\ cBase \in BaseLocations
  /\ Locs \in SUBSET SetLocations(cBase)
  /\ Locs0 = Locs
  /\ Locs1 = {}
  /\ Nodes = NodeLocations(cBase)
  /\ cI = Len(Nodes)
  /\ pass = 1
  /\ cpc = "loop"

\* lines 281-282: a leaf node
CompactLeaf ==
  /\ cpc = "loop" /\ cI >= 1
  /\ cFirstLevel = << >>
  /\ cI' = cI - 1
  /\ UNCHANGED <<cBase, Locs, Locs0, Locs1, Nodes, pass, cpc, rvars, evars, avars>>

\* lines 285-286: a class reference
CompactClass ==
  /\ cpc = "loop" /\ cI >= 1
  /\ cFirstLevel # << >>
  /\ getClassOrBoundGenericClass(getType(cNode))
  /\ cI' = cI - 1
  /\ UNCHANGED <<cBase, Locs, Locs0, Locs1, Nodes, pass, cpc, rvars, evars, avars>>

\* lines 296-300: all first level locations are alive
CompactPromote ==
  /\ cpc = "loop" /\ cI >= 1
  /\ cFirstLevel # << >>
  /\ ~getClassOrBoundGenericClass(getType(cNode))
  /\ Alive(Locs, cFirstLevel)
  /\ Locs' = Promote(Locs, cFirstLevel, cNode)
  /\ cI' = cI - 1
  /\ UNCHANGED <<cBase, Locs0, Locs1, Nodes, pass, cpc, rvars, evars, avars>>

\* line 296, not taken: some first level location is missing
CompactKeep ==
  /\ cpc = "loop" /\ cI >= 1
  /\ cFirstLevel # << >>
  /\ ~getClassOrBoundGenericClass(getType(cNode))
  /\ ~Alive(Locs, cFirstLevel)
  /\ cI' = cI - 1
  /\ UNCHANGED <<cBase, Locs, Locs0, Locs1, Nodes, pass, cpc, rvars, evars, avars>>

\* line 302: the loop has ended
CompactReturn ==
  /\ cpc = "loop" /\ cI = 0
  /\ cpc' = "done"
  /\ Locs1' = IF pass = 1 THEN Locs ELSE Locs1
  /\ UNCHANGED <<cBase, Locs, Locs0, Nodes, cI, pass, rvars, evars, avars>>

\* the caller calls reduce again, with the same Base, on the set it got
CompactAgain ==
  /\ cpc = "done" /\ pass = 1
  /\ pass' = 2
  /\ Nodes' = NodeLocations(cBase)
  /\ cI' = Len(Nodes')
  /\ cpc' = "loop"
  /\ UNCHANGED <<cBase, Locs, Locs0, Locs1, rvars, evars, avars>>

NextCompact ==
  \/ CompactLeaf
  \/ CompactClass
  \/ CompactPromote
  \/ CompactKeep
  \/ CompactReturn
  \/ CompactAgain

SpecCompact == InitCompact /\ [][NextCompact]_vars

(***************************************************************************)
(* The two walks over the projection tree, LSValue::reduce and             *)
(* LSLocation::reduce: a run is a run of either.                           *)
(***************************************************************************)
InitProjectionTree == InitReduce \/ InitCompact

NextProjectionTree == NextReduce \/ NextCompact

SpecProjectionTree == InitProjectionTree /\ [][NextProjectionTree]_vars

(***************************************************************************)
(* LSLocation::enumerateLSLocation over a sequence of address values.      *)
(***************************************************************************)
\* The address values (SILValue Mem) of the model: NumTags distinct values
\* for each location of allocation aMix, and values no projection path can
\* be found for.
MemValues ==
  {[tag |-> t, uo |-> L.base, path |-> L.path, resolvable |-> TRUE] :
     t \in 1..NumTags, L \in Range(NodeLocations(LSLocation("aMix", << >>)))}
  \cup {[tag |-> t, uo |-> "aMix", path |-> << >>, resolvable |-> FALSE] :
          t \in 1..NumTags}

getUnderlyingObject(Mem) == Mem.uo
\* ProjectionPath::getProjectionPath(UO, Mem); the Optional has a value
\* exactly for a resolvable address
getProjectionPath(UO, Mem) == Mem.path
\* LSLocation::isValid of the location built from Mem at line 315
isValid(Mem) == Mem.resolvable

\* lines 329-334, from Locs[i] on, with no look at the index map
RECURSIVE AddLocsUnchecked(_, _, _, _)
AddLocsUnchecked(L, i, vault, index) ==
  IF i > Len(L) THEN [vault |-> vault, index |-> index]
  ELSE AddLocsUnchecked(L, i + 1, Append(vault, L[i]),
                        [x \in DOMAIN index \cup {L[i]} |->
                           IF x = L[i] THEN Len(vault) ELSE index[x]])

\* lines 329-334, from Locs[i] on: the vault and the index map after the loop
RECURSIVE AddLocs(_, _, _, _)
AddLocs(L, i, vault, index) ==
  IF i > Len(L) THEN [vault |-> vault, index |-> index]
  ELSE IF L[i] \in DOMAIN index THEN AddLocs(L, i + 1, vault, index)
  ELSE AddLocs(L, i + 1, Append(vault, L[i]),
               [x \in DOMAIN index \cup {L[i]} |->
                  IF x = L[i] THEN Len(vault) ELSE index[x]])

\* an enumerateLSLocation with neither the base map test nor the index map test
enumerateLSLocationNoMemo(Mem, vault, index, basemap) ==
  LET UO == getUnderlyingObject(Mem)
      L  == LSLocation(UO, getProjectionPath(UO, Mem))
      r  == AddLocsUnchecked(expand(L), 1, vault, index)
  IN  IF ~isValid(Mem)
      THEN [vault |-> vault, index |-> index, basemap |-> basemap]
      ELSE [vault |-> r.vault, index |-> r.index,
            basemap |-> [x \in DOMAIN basemap \cup {Mem} |->
                           IF x = Mem THEN L ELSE basemap[x]]]

\* an enumerateLSLocation without the validity test of lines 319-320
enumerateLSLocationNoValidTest(Mem, vault, index, basemap) ==
  LET UO == getUnderlyingObject(Mem)
      L  == LSLocation(UO, getProjectionPath(UO, Mem))
      r  == AddLocs(expand(L), 1, vault, index)
  IN  IF Mem \in DOMAIN basemap
      THEN [vault |-> vault, index |-> index, basemap |-> basemap]
      ELSE [vault |-> r.vault, index |-> r.index,
            basemap |-> [x \in DOMAIN basemap \cup {Mem} |->
                           IF x = Mem THEN L ELSE basemap[x]]]

\* an enumerateLSLocation that records the address and expands nothing
enumerateLSLocationNoExpand(Mem, vault, index, basemap) ==
  LET UO == getUnderlyingObject(Mem)
      L  == LSLocation(UO, getProjectionPath(UO, Mem))
  IN  IF Mem \in DOMAIN basemap \/ ~isValid(Mem)
      THEN [vault |-> vault, index |-> index, basemap |-> basemap]
      ELSE [vault |-> vault, index |-> index,
            basemap |-> [x \in DOMAIN basemap \cup {Mem} |->
                           IF x = Mem THEN L ELSE basemap[x]]]

\* lines 304-336: the vault, the index map and the base map after the call
enumerateLSLocation(Mem, vault, index, basemap) ==
  LET UO == getUnderlyingObject(Mem)
      L  == LSLocation(UO, getProjectionPath(UO, Mem))
      r  == AddLocs(expand(L), 1, vault, index)
  IN  IF Mem \in DOMAIN basemap \/ ~isValid(Mem)
      THEN [vault |-> vault, index |-> index, basemap |-> basemap]
      ELSE [vault |-> r.vault, index |-> r.index,
            basemap |-> [x \in DOMAIN basemap \cup {Mem} |->
                           IF x = Mem THEN L ELSE basemap[x]]]

InitEnum ==
  /\ ReduceOff /\ CompactOff /\ AliasOff
  /\ Locations = << >>
  /\ IndexMap = << >>
  /\ BaseMap = << >>
  /\ seen = {}
  /\ calls = 0
  /\ epc = "run"
  /\ EnumAllOff

\* one call of enumerateLSLocation with address value Mem
Call(Mem) ==
  /\ epc = "run" /\ calls < MaxCalls
  /\ LET r == enumerateLSLocation(Mem, Locations, IndexMap, BaseMap)
     IN  /\ Locations' = r.vault
         /\ IndexMap' = r.index
         /\ BaseMap' = r.basemap
  /\ seen' = seen \cup {Mem}
  /\ calls' = calls + 1
  /\ UNCHANGED <<epc, Fn, fI, LSCount, LSCount0, fpc, rvars, cvars, avars>>

\* lines 310-311: the address value was processed before
EnumerateKnown == \E Mem \in MemValues : Mem \in DOMAIN BaseMap /\ Call(Mem)

\* lines 319-320: no base or no projection path
EnumerateInvalid ==
  \E Mem \in MemValues : Mem \notin DOMAIN BaseMap /\ ~isValid(Mem) /\ Call(Mem)

\* lines 323-334: a new address value
EnumerateNew ==
  \E Mem \in MemValues : Mem \notin DOMAIN BaseMap /\ isValid(Mem) /\ Call(Mem)

NextEnum ==
  \/ EnumerateKnown
  \/ EnumerateInvalid
  \/ EnumerateNew

SpecEnum == InitEnum /\ [][NextEnum]_vars

(***************************************************************************)
(* LSLocation::enumerateLSLocations over the instructions of a function.   *)
(***************************************************************************)
\* the address values the instructions of the model's functions access: one
\* per location of allocation aMix, and one no projection path is found for
FnMems == {Mem \in MemValues : Mem.tag = 1}

\* an address value an instruction that is neither load nor store works on
OtherMem == [tag |-> 1, uo |-> "aMix", path |-> << >>, resolvable |-> TRUE]

\* the instructions of the model: LoadInst with its operand, StoreInst with
\* its destination, and an instruction of any other kind
Instructions ==
  {[kind |-> k, mem |-> Mem] : k \in {"LoadInst", "StoreInst"}, Mem \in FnMems}
    \cup {[kind |-> "Other", mem |-> OtherMem]}

\* the functions of the model: fewer than MaxCalls instructions, in the
\* order the two loops of lines 347-348 visit them
Functions == UNION {[1..n -> Instructions] : n \in 0..(MaxCalls - 1)}

\* the counters the caller passes in
InitialCounts == {<<0, 0>>, <<3, 5>>}

InitEnumAll ==
  /\ ReduceOff /\ CompactOff /\ AliasOff
  /\ Locations = << >>
  /\ IndexMap = << >>
  /\ BaseMap = << >>
  /\ seen = {}
  /\ calls = 0
  /\ epc = "off"
  /\ Fn \in Functions
  /\ fI = 1
  /\ LSCount \in InitialCounts
  /\ LSCount0 = LSCount
  /\ fpc = "loop"

\* a load that is counted only when its address was not processed before
VisitLoadCountingNew ==
  /\ fpc = "loop" /\ fI <= Len(Fn)
  /\ Fn[fI].kind = "LoadInst"
  /\ LET r == enumerateLSLocation(Fn[fI].mem, Locations, IndexMap, BaseMap)
     IN  /\ Locations' = r.vault
         /\ IndexMap' = r.index
         /\ BaseMap' = r.basemap
         /\ LSCount' = IF r.basemap = BaseMap THEN LSCount
                       ELSE <<LSCount[1] + 1, LSCount[2]>>
  /\ fI' = fI + 1
  /\ UNCHANGED <<seen, calls, epc, Fn, LSCount0, fpc, rvars, cvars, avars>>

\* lines 349-354: a load
VisitLoad ==
  /\ fpc = "loop" /\ fI <= Len(Fn)
  /\ Fn[fI].kind = "LoadInst"
  /\ LET r == enumerateLSLocation(Fn[fI].mem, Locations, IndexMap, BaseMap)
     IN  /\ Locations' = r.vault
         /\ IndexMap' = r.index
         /\ BaseMap' = r.basemap
  /\ LSCount' = <<LSCount[1] + 1, LSCount[2]>>
  /\ fI' = fI + 1
  /\ UNCHANGED <<seen, calls, epc, Fn, LSCount0, fpc, rvars, cvars, avars>>

\* lines 355-360: a store
VisitStore ==
  /\ fpc = "loop" /\ fI <= Len(Fn)
  /\ Fn[fI].kind = "StoreInst"
  /\ LET r == enumerateLSLocation(Fn[fI].mem, Locations, IndexMap, BaseMap)
     IN  /\ Locations' = r.vault
         /\ IndexMap' = r.index
         /\ BaseMap' = r.basemap
  /\ LSCount' = <<LSCount[1], LSCount[2] + 1>>
  /\ fI' = fI + 1
  /\ UNCHANGED <<seen, calls, epc, Fn, LSCount0, fpc, rvars, cvars, avars>>

\* line 361: an instruction that is neither
VisitOther ==
  /\ fpc = "loop" /\ fI <= Len(Fn)
  /\ Fn[fI].kind \notin {"LoadInst", "StoreInst"}
  /\ fI' = fI + 1
  /\ UNCHANGED <<Locations, IndexMap, BaseMap, LSCount>>
  /\ UNCHANGED <<seen, calls, epc, Fn, LSCount0, fpc, rvars, cvars, avars>>

\* line 363: both loops have ended
EnumAllReturn ==
  /\ fpc = "loop" /\ fI > Len(Fn)
  /\ fpc' = "done"
  /\ UNCHANGED <<Locations, IndexMap, BaseMap, LSCount, fI>>
  /\ UNCHANGED <<seen, calls, epc, Fn, LSCount0, rvars, cvars, avars>>

NextEnumAll ==
  \/ VisitLoad
  \/ VisitStore
  \/ VisitOther
  \/ EnumAllReturn

SpecEnumAll == InitEnumAll /\ [][NextEnumAll]_vars

(***************************************************************************)
(* The alias predicates, asked of two locations.                           *)
(***************************************************************************)
\* AliasAnalysis::alias answers one of these for two bases
AliasResults == {"NoAlias", "MayAlias", "PartialAlias", "MustAlias"}
AAisMustAlias(r) == r = "MustAlias"
AAisNoAlias(r) == r = "NoAlias"

\* SILValueProjection::hasIdenticalProjectionPath
hasIdenticalProjectionPath(A, B) == A.path = B.path

\* length of the longest common prefix of two paths
RECURSIVE CommonPrefix(_, _)
CommonPrefix(p, q) ==
  IF p = << >> \/ q = << >> \/ Head(p) # Head(q) THEN 0
  ELSE 1 + CommonPrefix(Tail(p), Tail(q))

\* SILValueProjection::hasNonEmptySymmetricPathDifference: after the longest
\* common prefix both paths go on, into different fields
hasNonEmptySymmetricPathDifference(A, B) ==
  LET n == CommonPrefix(A.path, B.path)
  IN  n < Len(A.path) /\ n < Len(B.path)

\* an isMustAliasLSLocation that does not compare the paths
isMustAliasLSLocationBasesOnly(A, B, r) == AAisMustAlias(r)

isMustAliasLSLocation(A, B, r) ==
  IF ~AAisMustAlias(r) THEN FALSE
  ELSE IF ~hasIdenticalProjectionPath(A, B) THEN FALSE
  ELSE TRUE

\* an isMayAliasLSLocation that does not ask the alias analysis
isMayAliasLSLocationPathsOnly(A, B, r) == ~hasNonEmptySymmetricPathDifference(A, B)

isMayAliasLSLocation(A, B, r) ==
  IF AAisNoAlias(r) THEN FALSE
  ELSE IF hasNonEmptySymmetricPathDifference(A, B) THEN FALSE
  ELSE TRUE

\* the locations asked about: the nodes of two allocations
AliasLocations ==
  Range(NodeLocations(LSLocation("aMix", << >>)))
    \cup Range(NodeLocations(LSLocation("aPt", << >>)))

InitAlias ==
  /\ ReduceOff /\ CompactOff /\ EnumOff
  /\ locA \in AliasLocations
  /\ locB \in AliasLocations
  /\ AAResult \in AliasResults
  /\ must = FALSE
  /\ may = FALSE
  /\ apc = "ask"
  /\ EscapeOff

AskMustAlias ==
  /\ apc = "ask"
  /\ must' = isMustAliasLSLocation(locA, locB, AAResult)
  /\ apc' = "must"
  /\ UNCHANGED <<locA, locB, AAResult, may, rvars, cvars, evars>>
  /\ UNCHANGED <<locE, baseInst, cgNode, nonEsc, xpc>>

AskMayAlias ==
  /\ apc = "must"
  /\ may' = isMayAliasLSLocation(locA, locB, AAResult)
  /\ apc' = "done"
  /\ UNCHANGED <<locA, locB, AAResult, must, rvars, cvars, evars>>
  /\ UNCHANGED <<locE, baseInst, cgNode, nonEsc, xpc>>

NextAlias ==
  \/ AskMustAlias
  \/ AskMayAlias

SpecAlias == InitAlias /\ [][NextAlias]_vars

(***************************************************************************)
(* LSLocation::isNonEscapingLocalLSLocation, asked of one location.        *)
(***************************************************************************)
\* what the Base of a location can be: an alloc_stack, another allocation
\* instruction, or a value that is no allocation instruction
BaseInsts == {"AllocStackInst", "AllocRefInst", "AllocBoxInst", "SILArgument"}
isaAllocStackInst(k) == k = "AllocStackInst"
isaAllocationInst(k) == k \in {"AllocStackInst", "AllocRefInst", "AllocBoxInst"}

\* ConGraph->getNodeOrNull(Base, EA): no node, or a node that escapes or not
CGNodes == {"null", "escaping", "local"}
escapes(n) == n = "escaping"

\* a predicate that asks the connection graph about an alloc_stack as well
isNonEscapingLocalLSLocationGraphOnly(k, n) ==
  IF isaAllocationInst(k) /\ n # "null" /\ ~escapes(n) THEN TRUE
  ELSE FALSE

isNonEscapingLocalLSLocation(k, n) ==
  IF isaAllocStackInst(k) THEN TRUE
  ELSE IF isaAllocationInst(k) /\ n # "null" /\ ~escapes(n) THEN TRUE
  ELSE FALSE

InitEscape ==
  /\ ReduceOff /\ CompactOff /\ EnumOff /\ AliasAskOff
  /\ locE \in AliasLocations
  /\ baseInst \in BaseInsts
  /\ cgNode \in CGNodes
  /\ nonEsc = FALSE
  /\ xpc = "ask"

AskNonEscaping ==
  /\ xpc = "ask"
  /\ nonEsc' = isNonEscapingLocalLSLocation(baseInst, cgNode)
  /\ xpc' = "done"
  /\ UNCHANGED <<locE, baseInst, cgNode, rvars, cvars, evars>>
  /\ UNCHANGED <<locA, locB, AAResult, must, may, apc>>

NextEscape == AskNonEscaping

SpecEscape == InitEscape /\ [][NextEscape]_vars

(***************************************************************************)
(* What an SSA value denotes: the projection of value b along path p, with *)
(* the emitted instructions unfolded. The result is an LSValue over one of *)
(* the caller's SSA values, or over an aggregate no projection opens.      *)
(***************************************************************************)
RECURSIVE Resolve(_, _, _)
Resolve(b, p, ins) ==
  IF b <= NumArgs THEN LSValue(b, p)
  ELSE LET in == ins[b - NumArgs]
       IN  IF in.op = "extract"
           THEN Resolve(in.operand, <<in.step>> \o p, ins)
           ELSE IF p = << >> \/ FieldIndex(in.ty, Head(p)) = 0
                THEN LSValue(b, p)
                ELSE Resolve(in.elems[FieldIndex(in.ty, Head(p))], Tail(p), ins)

\* the path from Base to a location of its expansion
RelPath(L) == SubSeq(L.path, Len(rBase.path) + 1, Len(L.path))

\* the returned value read at leaf L is what the caller's map held for L
LeafPreserved(L) == Resolve(ret, RelPath(L), insts) = Values0[L]

\* number of instructions with the given opcode among ins[from+1..]
CountOps(ins, from, op) ==
  Cardinality({k \in (from + 1)..Len(ins) : ins[k].op = op})

\* C1: whatever one-value-per-leaf map the caller passes, the value reduce
\* returns denotes the contents of Base: read at any leaf L it is the value
\* the map held for L, on every branch of the loop.
C1_ReduceDenotesBase ==
  rpc = "done" => \A L \in DOMAIN Values0 : LeafPreserved(L)

\* the map of the C2 round trip: a distinct SSA value, unprojected, per leaf
FreshMap(f) ==
  /\ \A L \in DOMAIN f : f[L].path = << >>
  /\ \A L1, L2 \in DOMAIN f : f[L1] = f[L2] => L1 = L2

\* value b is a nesting of aggregate constructions that follows T's field tree
RECURSIVE FollowsTree(_, _, _)
FollowsTree(T, b, ins) ==
  IF FieldsOf(T) = << >> \/ getClassOrBoundGenericClass(T)
  THEN b <= NumArgs
  ELSE /\ b > NumArgs
       /\ ins[b - NumArgs].op = "agg"
       /\ ins[b - NumArgs].ty = T
       /\ Len(ins[b - NumArgs].elems) = Len(FieldsOf(T))
       /\ \A i \in 1..Len(FieldsOf(T)) :
            FollowsTree(FieldsOf(T)[i].ty, ins[b - NumArgs].elems[i], ins)

\* C2: with a fresh unprojected value per leaf, reduce returns a nesting of
\* aggregate constructions that follows Base's field tree and reads, at every
\* leaf, the fresh value supplied for that leaf.
C2_RoundTrip ==
  (rpc = "done" /\ FreshMap(Values0)) =>
     /\ \A L \in DOMAIN Values0 : LeafPreserved(L)
     /\ FollowsTree(getType(rBase), ret, insts)
     /\ CountOps(insts, 0, "extract") = 0

C2_Witness ==
  /\ rpc = "done" /\ FreshMap(Values0)
  /\ rBase = LSLocation("aMix", << >>)
  /\ CountOps(insts, 0, "agg") = 2

\* C3: started on a map keyed by exactly Base's leaves, the loop ends with a
\* map of exactly one entry, keyed by Base, and the assertion holds.
C3_SingleEntry ==
  (rpc # "off" /\ rI = 0) => (DOMAIN Values = {rBase} /\ rpc # "assert")

C3_Witness ==
  /\ rpc = "done" /\ rBase = LSLocation("aMix", << >>)
  /\ DOMAIN Values = {rBase}

\* every leaf of Base maps to the projection of one SSA value v along the
\* path from Base to the leaf
SingleBaseMap(f, v) == \A L \in DOMAIN f : f[L] = LSValue(v, RelPath(L))

\* C4: when every leaf maps to the matching projection of one value v, reduce
\* emits no instruction and returns v.
C4_SingleBaseShortcut ==
  \A v \in 1..NumArgs :
     (rpc = "done" /\ SingleBaseMap(Values0, v)) => (insts = << >> /\ ret = v)

\* the children of the node being visited hold values of differing bases
DifferingBases ==
  \E i, j \in 1..Len(FirstLevel) : Values[FirstLevel[i]].base # Values[FirstLevel[j]].base

\* a step of the loop that takes the aggregation branch for such a node
AggStepDiffering ==
  /\ rpc = "loop" /\ rI >= 1 /\ rI' = rI - 1 /\ branch' = "agg"
  /\ DifferingBases

RECURSIVE PathSteps(_, _, _)
PathSteps(vals, FL, i) ==
  IF i > Len(FL) THEN 0 ELSE Len(vals[FL[i]].path) + PathSteps(vals, FL, i + 1)

\* what the aggregation step leaves behind, whatever it extracted
AggStepResult ==
  /\ CountOps(insts', Len(insts), "agg") = 1
  /\ insts'[Len(insts')].op = "agg"
  /\ Values'[Node] = LSValue(NumArgs + Len(insts'), << >>)
  /\ rI' = 0 => Node = rBase

\* C5 as stated: one extraction instruction per child with a non-empty path.
C5_OneExtractPerChild ==
  [][AggStepDiffering =>
       /\ CountOps(insts', Len(insts), "extract")
            = Cardinality({i \in 1..Len(FirstLevel) : Values[FirstLevel[i]].path # << >>})
       /\ AggStepResult]_vars

\* C5, amended: in the aggregation fallback for children of differing bases,
\* reduce emits one extraction instruction per step of each child's path (none
\* for an empty path) and one aggregate construction; the node's entry gets
\* an empty path over the aggregate's result, which is what reduce returns
\* when the node is Base.
C5_OneExtractPerStep ==
  [][/\ AggStepDiffering =>
          /\ CountOps(insts', Len(insts), "extract") = PathSteps(Values, FirstLevel, 1)
          /\ Len(insts') = Len(insts) + PathSteps(Values, FirstLevel, 1) + 1
          /\ AggStepResult
     /\ (rpc' = "done" /\ branch' = "agg") =>
          /\ ret' = NumArgs + Len(insts')
          /\ insts'[Len(insts')].op = "agg"
          /\ insts' = insts]_vars

C5_Witness ==
  /\ rpc = "done" /\ branch = "agg"
  /\ rBase = LSLocation("aPt", << >>)
  /\ Values0[LSLocation("aPt", <<"x">>)] = LSValue(2, <<"w", "x">>)
  /\ Values0[LSLocation("aPt", <<"y">>)] = LSValue(5, << >>)
  /\ ret = NumArgs + 3

\* C6: two locations that must alias may alias.
C6_MustImpliesMay == (apc = "done" /\ must) => may

C6_Witness == apc = "done" /\ must /\ may /\ locA.path # << >>

\* C7: reduce run a second time, with the same Base, on the set the first
\* run left leaves the set as it is.
C7_CompactIdempotent == (pass = 2 /\ cpc = "done") => Locs = Locs1

C7_Witness ==
  /\ pass = 2 /\ cpc = "done"
  /\ cBase = LSLocation("aMix", << >>)
  /\ Locs0 = Range(expand(LSLocation("aMix", <<"p">>))) \cup {LSLocation("aMix", <<"c">>)}
  /\ Locs = {cBase}

\* the leaves the locations of a set expand to
LeavesOf(locs) == UNION {Range(expand(L)) : L \in locs}

\* C8: a set that is exactly Base's leaf expansion is reduced to the single
\* location Base, and expanding what is left gives the original leaves back.
C8_CompactExpandRoundTrip ==
  (pass = 1 /\ cpc = "done" /\ Locs0 = Range(expand(cBase))) =>
     (Locs = {cBase} /\ LeavesOf(Locs) = Locs0)

C8_Witness ==
  /\ pass = 1 /\ cpc = "done"
  /\ cBase = LSLocation("aMix", << >>)
  /\ Locs0 = Range(expand(cBase))
  /\ Cardinality(Locs0) = 3
  /\ Locs = {cBase}

\* C9: a call of enumerateLSLocation with an address value it was called with
\* before changes neither the vault nor the index map nor the base map.
C9_EnumerateIdempotent ==
  [][\A Mem \in seen : Call(Mem) => UNCHANGED <<Locations, IndexMap, BaseMap>>]_vars

C9_Witness ==
  /\ calls > Cardinality(seen)
  /\ \E Mem \in seen : Mem \in DOMAIN BaseMap
  /\ Len(Locations) = 3

\* the vault holds no location twice, and the index map is its inverse
VaultIndexed ==
  /\ \A i, j \in 1..Len(Locations) : Locations[i] = Locations[j] => i = j
  /\ DOMAIN IndexMap = Range(Locations)
  /\ \A i \in 1..Len(Locations) : IndexMap[Locations[i]] = i - 1

\* a call only appends to the vault
VaultAppended ==
  /\ Len(Locations') >= Len(Locations)
  /\ SubSeq(Locations', 1, Len(Locations)) = Locations

\* C10: after any calls the vault has no duplicate and the index map maps
\* exactly the vault's locations to their positions; a call only appends, so
\* the old vault is a prefix of the new one.
C10_VaultInvariant == [](VaultIndexed) /\ [][VaultAppended]_vars

C10_Witness ==
  /\ Len(Locations) = 3
  /\ \E m1, m2 \in DOMAIN BaseMap :
       /\ m1 # m2 /\ BaseMap[m1] = BaseMap[m2]
  /\ \E m1, m2 \in DOMAIN BaseMap :
       /\ BaseMap[m1] = LSLocation("aMix", << >>)
       /\ BaseMap[m2] = LSLocation("aMix", <<"p", "x">>)

\* the location an address value resolves to, lines 314-315
MemLocation(Mem) ==
  LSLocation(getUnderlyingObject(Mem), getProjectionPath(getUnderlyingObject(Mem), Mem))

\* a location the decomposition stops at: no fields, or a class reference
IsLeafLocation(L) ==
  FieldsOf(getType(L)) = << >> \/ getClassOrBoundGenericClass(getType(L))

IsPrefix(p, q) == Len(p) <= Len(q) /\ SubSeq(q, 1, Len(p)) = p

\* the leaf locations at or beneath L, read off the field tree: the leaves
\* reached from L through locations that are not leaves themselves
LeavesUnder(L) ==
  {X \in {LSLocation(L.base, q) : q \in AllPaths(AddrType(L.base))} :
     /\ IsPrefix(L.path, X.path)
     /\ IsLeafLocation(X)
     /\ \A n \in Len(L.path)..(Len(X.path) - 1) :
          ~IsLeafLocation(LSLocation(L.base, SubSeq(X.path, 1, n)))}

\* LeavesUnder, tabulated for the locations address values resolve to
LeavesOfMem == [Mem \in {m \in MemValues : isValid(m)} |-> LeavesUnder(MemLocation(Mem))]

\* the leaf locations instruction k of the function accesses
AccessedBy(k) ==
  IF Fn[k].kind \in {"LoadInst", "StoreInst"} /\ isValid(Fn[k].mem)
  THEN LeavesOfMem[Fn[k].mem]
  ELSE {}

\* the first instruction, in program order, that accesses leaf L
FirstAccess(L) ==
  CHOOSE k \in 1..Len(Fn) : L \in AccessedBy(k) /\ \A j \in 1..(k - 1) : L \notin AccessedBy(j)

\* the vault after the instructions before fI
VaultOfAccessedLeaves ==
  fpc # "off" =>
    /\ Range(Locations) = UNION {AccessedBy(k) : k \in 1..(fI - 1)}
    /\ \A i, j \in 1..Len(Locations) : Locations[i] = Locations[j] => i = j
    /\ \A i \in 1..Len(Locations) : IsLeafLocation(Locations[i])
    /\ \A i \in 1..Len(Locations) : IndexMap[Locations[i]] = i - 1
    /\ \A i, j \in 1..Len(Locations) :
         i < j => FirstAccess(Locations[i]) <= FirstAccess(Locations[j])

\* an access all of whose leaves are in the vault adds nothing
CoveredAccessAddsNothing ==
  (fpc = "loop" /\ fI <= Len(Fn) /\ fI' = fI + 1
     /\ AccessedBy(fI) \subseteq Range(Locations))
    => UNCHANGED <<Locations, IndexMap>>

\* C11: during and after enumerateLSLocations the vault holds exactly the
\* leaf locations of the resolvable addresses the loads and stores visited so
\* far access, each once and none of them an aggregate with fields, indexed
\* in the order of their first access in program order; an access whose
\* leaves are all in the vault already, such as a store to a whole aggregate
\* after loads of each of its fields, adds no entry.
C11_VaultOfAccessedLeaves ==
  [](VaultOfAccessedLeaves) /\ [][CoveredAccessAddsNothing]_vars

C11_Witness ==
  /\ fpc = "done"
  /\ Len(Fn) = 3
  /\ Fn[1] = [kind |-> "LoadInst", mem |-> [tag |-> 1, uo |-> "aMix", path |-> <<"p", "x">>, resolvable |-> TRUE]]
  /\ Fn[2] = [kind |-> "LoadInst", mem |-> [tag |-> 1, uo |-> "aMix", path |-> <<"p", "y">>, resolvable |-> TRUE]]
  /\ Fn[3] = [kind |-> "StoreInst", mem |-> [tag |-> 1, uo |-> "aMix", path |-> <<"p">>, resolvable |-> TRUE]]
  /\ Locations = << LSLocation("aMix", <<"p", "x">>), LSLocation("aMix", <<"p", "y">>) >>

\* number of instructions of the given kind among the first n of the function
CountKind(n, k) == Cardinality({i \in 1..n : Fn[i].kind = k})

\* the counters after the instructions before fI
CountersCountSites ==
  fpc # "off" =>
    /\ LSCount[1] = LSCount0[1] + CountKind(fI - 1, "LoadInst")
    /\ LSCount[2] = LSCount0[2] + CountKind(fI - 1, "StoreInst")

\* a step over an instruction that is neither a load nor a store
OtherInstructionIgnored ==
  (fpc = "loop" /\ fI <= Len(Fn) /\ fI' = fI + 1
     /\ Fn[fI].kind \notin {"LoadInst", "StoreInst"})
    => UNCHANGED <<Locations, IndexMap, BaseMap, LSCount>>

\* C12: enumerateLSLocations raises the first counter by one for every load
\* instruction and the second by one for every store instruction, whether or
\* not the address resolves or was seen before; an instruction of any other
\* kind changes neither a counter nor the vault, the index map or the base
\* map.
C12_CountersCountSites ==
  [](CountersCountSites) /\ [][OtherInstructionIgnored]_vars

C12_Witness ==
  /\ fpc = "done"
  /\ LSCount0 = <<3, 5>>
  /\ LSCount = <<5, 5>>
  /\ \E i, j, k \in 1..Len(Fn) :
       /\ i < j
       /\ Fn[i].kind = "LoadInst" /\ Fn[j].kind = "LoadInst"
       /\ Fn[i].mem = Fn[j].mem /\ ~isValid(Fn[i].mem)
       /\ Fn[k].kind = "Other"
  /\ Locations = << >>

IsClassLocation(L) == getClassOrBoundGenericClass(getType(L))

\* the locations of the fields behind class reference c
FieldsBehind(c) ==
  {LSLocation(c.base, Append(c.path, FieldsOf(getType(c))[i].step)) :
     i \in 1..Len(FieldsOf(getType(c)))}

\* LSValue::reduce: while a class reference is a key its entry is the one the
\* caller supplied, and no field behind it ever is a key
ReduceKeepsClassEntries ==
  rpc # "off" =>
    \A c \in DOMAIN Values0 :
       IsClassLocation(c) =>
         /\ c \in DOMAIN Values => Values[c] = Values0[c]
         /\ FieldsBehind(c) \cap DOMAIN Values = {}

\* leaf expansion stops at a class reference: no leaf lies behind one
ExpandStopsAtClass(B) ==
  \A L \in Range(expand(B)) :
     \A n \in Len(B.path)..(Len(L.path) - 1) :
        ~IsClassLocation(LSLocation(L.base, SubSeq(L.path, 1, n)))

NoLeafBehindClass ==
  /\ rpc # "off" => ExpandStopsAtClass(rBase)
  /\ cpc # "off" => ExpandStopsAtClass(cBase)

\* LSValue::reduce: the visit of a class reference changes nothing, and a
\* class reference's entry goes away only when its parent is processed
ReduceSkipsClass ==
  /\ (rpc = "loop" /\ rI >= 1 /\ rI' = rI - 1 /\ IsClassLocation(Node))
       => UNCHANGED <<Values, insts>>
  /\ (rpc = "loop" /\ rI >= 1 /\ rI' = rI - 1) =>
       \A c \in DOMAIN Values :
          (IsClassLocation(c) /\ c \notin DOMAIN Values') =>
             /\ c \in Range(FirstLevel)
             /\ Node \in DOMAIN Values'

\* LSLocation::reduce: the visit of a class reference changes nothing; no
\* step inserts a class reference that has fields, and no step inserts or
\* removes a field behind one
CompactSkipsClass ==
  /\ (cpc = "loop" /\ cI >= 1 /\ cI' = cI - 1 /\ IsClassLocation(cNode))
       => UNCHANGED Locs
  /\ cpc # "off" =>
       \A c \in SetLocations(cBase) :
          (IsClassLocation(c) /\ FieldsBehind(c) # {}) =>
             /\ c \notin Locs => c \notin Locs'
             /\ \A f \in FieldsBehind(c) : f \in Locs <=> f \in Locs'

\* C13: a class reference is never decomposed. LSValue::reduce synthesizes no
\* value for it and neither reads nor removes entries for its fields, so the
\* entry the caller supplied for it is the one its parent consumes;
\* LSLocation::reduce never promotes it from its fields and never removes
\* its fields from the set, even when all of them are present; and leaf
\* expansion yields no location behind it.
C13_ClassNeverDecomposed ==
  /\ [](ReduceKeepsClassEntries /\ NoLeafBehindClass)
  /\ [][ReduceSkipsClass /\ CompactSkipsClass]_vars

C13_Witness ==
  /\ cpc = "done" /\ pass = 1
  /\ cBase = LSLocation("aMix", << >>)
  /\ Locs0 = FieldsBehind(LSLocation("aMix", <<"c">>))
               \cup {LSLocation("aMix", <<"p">>)}
  /\ Cardinality(Locs0) = 3
  /\ Locs = Locs0

\* a call with an address value no location can be built for
UnresolvableCallIgnored ==
  \A Mem \in MemValues :
     (~isValid(Mem) /\ Call(Mem)) => UNCHANGED <<Locations, IndexMap, BaseMap>>

\* C14: a call of enumerateLSLocation with an address whose base or
\* projection path cannot be determined returns normally and leaves the
\* vault, the index map and the base map as they were; such an address is
\* never a key of the base map.
C14_UnresolvableIgnored ==
  /\ [](\A Mem \in seen : ~isValid(Mem) => Mem \notin DOMAIN BaseMap)
  /\ [][UnresolvableCallIgnored]_vars

C14_Witness ==
  /\ calls = 3
  /\ Cardinality(seen) = 2
  /\ \E Mem \in seen : ~isValid(Mem) /\ Mem \notin DOMAIN BaseMap
  /\ Cardinality(DOMAIN BaseMap) = 1
  /\ Len(Locations) = 2

\* the two paths select different fields at some step both of them have
PathsDiverge(p, q) ==
  \E i \in 1..Len(p) : i <= Len(q) /\ p[i] # q[i]

\* C15: isMayAliasLSLocation is false when the alias analysis says the bases
\* do not alias; otherwise it is false exactly when the paths diverge, that
\* is, have a non-empty symmetric difference; otherwise it is true, so it is
\* true whenever the bases are not no-alias and the paths are equal or one
\* is a prefix of the other.
C15_MayAliasDecision ==
  apc = "done" =>
    /\ AAisNoAlias(AAResult) => ~may
    /\ ~AAisNoAlias(AAResult) => (may <=> ~PathsDiverge(locA.path, locB.path))
    /\ (~AAisNoAlias(AAResult)
          /\ (IsPrefix(locA.path, locB.path) \/ IsPrefix(locB.path, locA.path)))
         => may

C15_Witness ==
  /\ apc = "done" /\ may /\ ~must
  /\ AAResult = "MayAlias"
  /\ locA = LSLocation("aMix", <<"p">>)
  /\ locB = LSLocation("aMix", <<"p", "y">>)

\* C16: isNonEscapingLocalLSLocation is true for every alloc_stack Base,
\* whatever the connection graph holds; for a Base that is another
\* allocation instruction it is true exactly when the connection graph has a
\* node for Base and that node does not escape; for a Base that is no
\* allocation instruction it is false.
C16_NonEscapingDecision ==
  xpc = "done" =>
    /\ baseInst = "AllocStackInst" => nonEsc
    /\ baseInst \in {"AllocRefInst", "AllocBoxInst"} => (nonEsc <=> cgNode = "local")
    /\ baseInst = "SILArgument" => ~nonEsc

C16_Witness ==
  /\ xpc = "done" /\ nonEsc
  /\ baseInst = "AllocStackInst" /\ cgNode = "escaping"
  /\ locE = LSLocation("aMix", <<"p", "x">>)

\* the loop of LSValue::reduce is at a node with fields that is no class
\* reference
AtInternalNode ==
  /\ rpc = "loop" /\ rI >= 1
  /\ FieldsOf(getType(Node)) # << >>
  /\ ~IsClassLocation(Node)

\* every first-level child of the node reached is a key already, so the
\* lookups of lines 123 and 141 insert nothing
ChildrenAreKeys ==
  AtInternalNode =>
    /\ Len(FirstLevel) = Len(FieldsOf(getType(Node)))
    /\ Range(FirstLevel) \subseteq DOMAIN Values
    /\ Looked = Values
    /\ Node \notin DOMAIN Values

\* the step over such a node takes one of the three branches and replaces
\* the children's keys by the node's
NodeReplacesChildren ==
  (AtInternalNode /\ rI' = rI - 1) =>
    /\ branch' \in {"strip1", "stripN", "agg"}
    /\ Node \in DOMAIN Values'
    /\ Range(FirstLevel) \cap DOMAIN Values' = {}
    /\ DOMAIN Values' = (DOMAIN Values \ Range(FirstLevel)) \cup {Node}

\* C17: whenever the loop of LSValue::reduce reaches a node with fields that
\* is no class reference, every first-level child of the node is a key of
\* Values already, so no lookup default-inserts; after the node is
\* processed, on each of the three branches, the node is a key and none of
\* its children is.
C17_BottomUpVisiting ==
  [](ChildrenAreKeys) /\ [][NodeReplacesChildren]_vars

C17_Witness ==
  /\ rpc = "done" /\ branch = "strip1"
  /\ rBase = LSLocation("aWrap", << >>)
  /\ DOMAIN Values = {rBase}
  /\ Values0[LSLocation("aWrap", <<"w", "x">>)] = LSValue(2, <<"w", "x">>)
  /\ Values0[LSLocation("aWrap", <<"w", "y">>)] = LSValue(2, <<"w", "y">>)

\* the first level of L has one child per field of L's type, in field order,
\* each with L's base and L's path extended by the field's step
OneChildPerField(L) ==
  LET FL == getFirstLevelLSLocations(L)
      Fs == FieldsOf(getType(L))
  IN  /\ Len(FL) = Len(Fs)
      /\ \A i \in 1..Len(Fs) :
           FL[i] = LSLocation(L.base, L.path \o <<Fs[i].step>>)

\* C18 as stated: the first level is empty for a type without fields and
\* for a class reference, and has one child per field for any other type.
C18_EmptyForClass ==
  cpc # "off" =>
    \A L \in SetLocations(cBase) :
       IF FieldsOf(getType(L)) = << >> \/ IsClassLocation(L)
       THEN getFirstLevelLSLocations(L) = << >>
       ELSE OneChildPerField(L)

\* C18, amended: getFirstLevelLSLocations returns one child per field step
\* the type system reports for the location's type, each with the location's
\* base and the location's path extended by that step; the list is empty
\* exactly when the type has no fields. A class reference that has fields
\* gets its fields' locations: the test for class references is the
\* callers', made after the first level is computed.
C18_OneChildPerField ==
  cpc # "off" =>
    /\ \A L \in SetLocations(cBase) :
         /\ OneChildPerField(L)
         /\ getFirstLevelLSLocations(L) = << >> <=> FieldsOf(getType(L)) = << >>
    /\ (cpc = "loop" /\ cI >= 1 /\ IsClassLocation(cNode)) =>
         Range(cFirstLevel) = FieldsBehind(cNode)

C18_Witness ==
  /\ cpc = "loop" /\ cI >= 1
  /\ cBase = LSLocation("aMix", << >>)
  /\ cNode = LSLocation("aMix", <<"c">>)
  /\ IsClassLocation(cNode)
  /\ cFirstLevel = << LSLocation("aMix", <<"c", "f">>), LSLocation("aMix", <<"c", "g">>) >>

\* the leaves a set of locations covers, read off the field tree
CoverageOf(locs) == UNION {LeavesUnder(L) : L \in locs}

\* a step of LSLocation::reduce keeps the coverage, inserts nothing but the
\* node visited, and that only when all its first-level children were in the
\* set, and leaves every location outside the node expansion alone
CompactStepRenamesCoverage ==
  cpc # "off" =>
    /\ CoverageOf(Locs') = CoverageOf(Locs)
    /\ \A N \in Locs' \ Locs :
         /\ cpc = "loop" /\ cI >= 1 /\ N = cNode
         /\ FieldsOf(getType(N)) # << >>
         /\ FieldsBehind(N) \subseteq Locs
    /\ \A L \in (Locs \cup Locs') \ Range(Nodes) : L \in Locs <=> L \in Locs'

\* C19: LSLocation::reduce preserves coverage for every input set: the union
\* of the leaf expansions of the locations in the set is the same before and
\* after the call and after every single step of it; a node is inserted only
\* when all its first-level children were in the set; locations outside
\* Base's node expansion are neither added nor removed.
C19_CompactPreservesCoverage ==
  /\ [](cpc # "off" =>
          /\ CoverageOf(Locs) = CoverageOf(Locs0)
          /\ Locs \ Range(Nodes) = Locs0 \ Range(Nodes))
  /\ [][CompactStepRenamesCoverage]_vars

C19_Witness ==
  /\ cpc = "done" /\ pass = 1
  /\ cBase = LSLocation("aMix", << >>)
  /\ Locs0 = { LSLocation("aMix", <<"p", "x">>), LSLocation("aMix", <<"p", "y">>),
               LSLocation("aMix", <<"c", "f">>), LSLocation("aPt", << >>) }
  /\ Locs = { LSLocation("aMix", <<"p">>),
              LSLocation("aMix", <<"c", "f">>), LSLocation("aPt", << >>) }

\* C20: after any calls of enumerateLSLocation every key of the base map is
\* a resolvable address, the location stored for it is the valid location
\* the address resolves to, and every leaf of that location's expansion is a
\* key of the index map whose index leads to it in the vault.
C20_BaseMapComplete ==
  epc = "run" =>
    \A Mem \in DOMAIN BaseMap :
       /\ Mem \in seen /\ isValid(Mem)
       /\ BaseMap[Mem] = MemLocation(Mem)
       /\ getType(BaseMap[Mem]) # "Invalid"
       /\ \A L \in LeavesUnder(BaseMap[Mem]) :
            /\ L \in DOMAIN IndexMap
            /\ IndexMap[L] + 1 \in 1..Len(Locations)
            /\ Locations[IndexMap[L] + 1] = L

C20_Witness ==
  /\ epc = "run" /\ calls = 3
  /\ Cardinality(DOMAIN BaseMap) = 3
  /\ \E m1, m2, m3 \in DOMAIN BaseMap :
       /\ BaseMap[m1] = LSLocation("aMix", <<"p", "y">>)
       /\ BaseMap[m2] = LSLocation("aMix", <<"c">>)
       /\ BaseMap[m3] = LSLocation("aMix", << >>)
  /\ Locations[1] # LSLocation("aMix", <<"c">>)
  /\ Len(Locations) = 3

====
